---- MODULE Spec2Model ----
(***************************************************************************)
(* A model of kobodl/kobo.py: the Kobo client (class Kobo).  One client,   *)
(* strictly sequential: `pc` is the position inside the operation `op`     *)
(* being executed, "idle" between operations.  Every HTTP exchange is one  *)
(* step; the store's answer (status, body, headers) is chosen by the       *)
(* environment from small sets.                                            *)
(***************************************************************************)
EXTENDS Integers, Sequences, FiniteSets, TLC

VARIABLES
    user,                    \* self.user: the credential record
    InitializationSettings,  \* self.InitializationSettings: resource name -> URL
    pc,                      \* position in the running operation
    op,                      \* the running (or last finished) public operation
    loc,                     \* the local variables of the running operation
    wire,                    \* the exchanges (request, answer) of the current Session.get/post
    resp,                    \* the response Session.get handed back to the operation
    sends,                   \* times the current request went on the wire (first send + resend)
    refreshes,               \* __RefreshAuthentication invocations during the current request
    saves,                   \* Globals.Settings.Save invocations during the current operation
    calls,                   \* hooked Session.get calls issued by the current operation
    fs,                      \* the files at outputPath and outputPath + ".downloading"
    result                   \* what the last finished operation gave its caller

vars == <<user, InitializationSettings, pc, op, loc, wire, resp,
          sends, refreshes, saves, calls, fs, result>>

(***************************************************************************)
(* Bounds of the model.                                                    *)
(***************************************************************************)
MaxPages == 2        \* book-list pages the store serves in one listing
MaxWishPages == 2    \* largest TotalPageCount the store reports
MaxUrls == 3         \* longest ContentUrls list (exhaustive descriptors)

(***************************************************************************)
(* Program constants.                                                      *)
(***************************************************************************)
PageSize == 100
Unauthorized == 401

(***************************************************************************)
(* Value sets of the environment.                                          *)
(***************************************************************************)
Statuses == {200, 401, 500}
TokenTypes == {"Bearer", "MAC"}
AccessTokens == {"", "tokA", "tokB"}
RefreshTokens == {"", "refA", "refB"}
DeviceIds == {"devA", "devB"}
ProductIds == {"p1"}
OutputPaths == {"book.epub"}
ResourceNames == {"sign_in_page", "library_sync", "user_wishlist", "book",
                  "content_access_book"}
Directories == {[n \in ResourceNames |-> <<"storeA", n>>],
                [n \in ResourceNames |-> <<"storeB", n>>]}
EmptyDict == [n \in {} |-> <<>>]

NoError == [type |-> "none", at |-> "", info |-> <<>>]
Error(t, a) == [type |-> t, at |-> a, info |-> <<>>]
NoResp == [status |-> 0, body |-> <<>>, headers |-> <<>>, more |-> FALSE]
\* One exchange on the wire.
Exchange(request, answer) == [req |-> request, answer |-> answer]
NoResult == [op |-> "none", status |-> "none", value |-> <<>>, error |-> NoError]
NoFiles == [tmp |-> "absent", out |-> "absent"]

\* requests.Response.raise_for_status: 4xx and 5xx raise HTTPError.
RaisesForStatus(status) == status >= 400 /\ status < 600

\* settings.User.AreAuthenticationSettingsSet (kobodl/settings.py): both tokens set.
AreAuthenticationSettingsSet(u) == u.AccessToken # "" /\ u.RefreshToken # ""

\* Faulty variant: the header built for the operation's first request is kept for the later ones.
GetHeaderOfFirstRequest ==
    IF Len(wire) > 0 /\ Len(wire[1].req.auth) = 2
    THEN wire[1].req.auth
    ELSE <<"Bearer", user.AccessToken>>

\* "Bearer " + self.user.AccessToken, as the pair (scheme, token).
GetHeaderWithAccessToken == <<"Bearer", user.AccessToken>>

\* Faulty variant: the authorization header is left out.
HookedGetWithoutHeader(url, headers, params) ==
    [method |-> "GET", url |-> url, auth |-> <<>>,
     headers |-> headers, params |-> params, hooked |-> TRUE]

\* A GET issued with headers=..., hooks=self.__GetReauthenticationHook().
HookedGet(url, headers, params) ==
    [method |-> "GET", url |-> url, auth |-> GetHeaderWithAccessToken,
     headers |-> headers, params |-> params, hooked |-> TRUE]

(***************************************************************************)
(* What the store may answer to each request of an operation.              *)
(***************************************************************************)
Batches == {<<"b2">>, <<"b2", "b1">>}
SyncTokens == {"", "s1", "s2"}

DRMTypes == {"KDRM", "SignedNoDrm", "AdeptDrm"}
UrlFormats == {"EPUB3", "KEPUB", "EPUB3FL", "PDF"}
\* A ContentUrls list: entry i carries DownloadUrl i, so the chosen entry is identifiable.
ContentUrlLists(n) ==
    UNION {[1..k -> DRMTypes \X UrlFormats] : k \in 0..n}
ContentUrlsOf(l) ==
    [i \in 1..Len(l) |->
        [DRMType |-> l[i][1], UrlFormat |-> l[i][2], DownloadUrl |-> i]]
Key1 == [Name |-> "k1", Value |-> "v1"]
Key1b == [Name |-> "k1", Value |-> "v2"]
\* Content Access Descriptors; a response may lack ContentUrls or ContentKeys.
AllDescriptors ==
    {[ContentUrls |-> ContentUrlsOf(l)] : l \in ContentUrlLists(MaxUrls)}
    \cup {[ContentKeys |-> <<Key1>>]}
DescriptorSamples ==
    {[ContentKeys |-> <<Key1>>],
     [ContentUrls |-> <<>>],
     [ContentUrls |-> ContentUrlsOf(<<<<"AdeptDrm", "PDF">>>>),
      ContentKeys |-> <<>>],
     [ContentUrls |-> ContentUrlsOf(<<<<"SignedNoDrm", "EPUB3">>>>)],
     [ContentUrls |-> ContentUrlsOf(<<<<"AdeptDrm", "PDF">>, <<"KDRM", "KEPUB">>>>),
      ContentKeys |-> <<Key1, Key1b>>]}

BodiesFor(o) ==
    CASE o = "LoadInitializationSettings" ->
            {[Resources |-> d] : d \in Directories}
      [] o = "GetBookInfo" -> {[Title |-> "t1"]}
      [] o = "GetMyBookList" -> Batches
      [] o = "GetMyWishList" ->
            {[Items |-> b, TotalPageCount |-> n] :
                b \in Batches, n \in 0..MaxWishPages}
      [] o = "Download" -> DescriptorSamples
      [] OTHER -> {<<>>}

\* The book-list headers; the store has at most MaxPages pages, `seen` already served.
HeadersFor(o, seen) ==
    CASE o = "GetMyBookList" ->
            {[sync |-> s, synctoken |-> t] :
                s \in {"continue", "done"}, t \in SyncTokens}
            \ (IF seen + 1 >= MaxPages
               THEN {[sync |-> "continue", synctoken |-> t] : t \in SyncTokens \ {""}}
               ELSE {})
      [] OTHER -> {<<>>}

\* Whether the library holds pages after the one being served (the client cannot
\* see it): never after page MaxPages.
MoreFor(o, seen) ==
    IF o = "GetMyBookList" /\ seen + 1 < MaxPages THEN BOOLEAN ELSE {FALSE}

\* The responses to a request of operation o: a failure status carries no body.
Responses(o, seen) ==
    {[status |-> s, body |-> <<>>, headers |-> <<>>, more |-> FALSE] :
        s \in Statuses \ {200}}
    \cup {[status |-> 200, body |-> b, headers |-> h, more |-> m] :
            b \in BodiesFor(o), h \in HeadersFor(o, seen), m \in MoreFor(o, seen)}

\* The token responses of the device-authentication and refresh endpoints.
TokenResponses ==
    {[status |-> s, TokenType |-> "", AccessToken |-> "", RefreshToken |-> "",
      UserKey |-> ""] : s \in Statuses \ {200}}
    \cup {[status |-> 200, TokenType |-> tt, AccessToken |-> a, RefreshToken |-> r,
           UserKey |-> "keyB"] :
            tt \in TokenTypes, a \in AccessTokens, r \in RefreshTokens}

(***************************************************************************)
(* Finishing an operation: its caller gets a value or an exception.        *)
(***************************************************************************)
Return(value) ==
    /\ pc' = "done"
    /\ result' = [op |-> op, status |-> "ok", value |-> value, error |-> NoError]

\* The operation `o` raises `error` to its caller.
RaiseFrom(o, error) ==
    /\ pc' = "done"
    /\ result' = [op |-> o, status |-> "error", value |-> <<>>, error |-> error]

\* The running operation raises `error` to its caller.
Raise(error) == RaiseFrom(op, error)

\* A public operation that raises before it sends anything.
RaiseAtEntry(o, error) ==
    /\ pc' = "done"
    /\ result' = [op |-> o, status |-> "error", value |-> <<>>, error |-> error]
    /\ wire' = <<>> /\ resp' = NoResp
    /\ sends' = 0 /\ refreshes' = 0 /\ calls' = 0

\* Entering a public operation from the caller.
Enter(o) ==
    /\ pc = "idle"
    /\ op' = o
    /\ saves' = 0

\* The operation is running: its caller has no outcome yet.
Running == result' = NoResult

(***************************************************************************)
(* Session.get(url, headers=..., hooks=self.__GetReauthenticationHook()):  *)
(* the request goes out and requests dispatches the response hook on the   *)
(* answer: any status but 401 is handed back as it is (kobo.py 95-96).     *)
(***************************************************************************)
SessionGetHooked(o, request, seen) ==
    /\ sends' = 1
    /\ refreshes' = 0
    /\ \E r \in Responses(o, seen) :
          /\ wire' = <<Exchange(request, r)>>
          /\ IF r.status = Unauthorized
             THEN pc' = "hook" /\ resp' = NoResp
             ELSE pc' = "response" /\ resp' = r

\* Faulty variant: only the access token is taken from the response.
StoreAccessTokenOnly(u, json) == [u EXCEPT !.AccessToken = json.AccessToken]

\* kobo.py 81-82 (and 285-286): both tokens are taken from the response.
StoreTokens(u, json) ==
    [u EXCEPT !.AccessToken = json.AccessToken, !.RefreshToken = json.RefreshToken]

\* Faulty variant: the check of the stored tokens is dropped.
SettingsNeverMissing(u) == FALSE

\* kobo.py 83 (and 287): "if not self.user.AreAuthenticationSettingsSet()".
SettingsMissing(u) == ~AreAuthenticationSettingsSet(u)

(***************************************************************************)
(* __RefreshAuthentication, called by the hook on a 401: one POST that     *)
(* carries the current access token and no hook.                           *)
(***************************************************************************)
RefreshAuthentication ==
    /\ pc = "hook"
    /\ refreshes' = refreshes + 1
    /\ \E json \in TokenResponses :
          /\ wire' = Append(wire,
                  Exchange([method |-> "POST", url |-> "auth/refresh",
                            auth |-> GetHeaderWithAccessToken,
                            headers |-> EmptyDict,
                            params |-> [RefreshToken |-> user.RefreshToken],
                            hooked |-> FALSE], json))
          /\ IF RaisesForStatus(json.status)
             THEN /\ Raise(Error("HTTPError", "refresh"))
                  /\ UNCHANGED <<user, saves>>
             ELSE IF json.TokenType # "Bearer"
             THEN /\ Raise(Error("KoboException", "refresh token type"))
                  /\ UNCHANGED <<user, saves>>
             ELSE /\ user' = StoreTokens(user, json)
                  /\ IF SettingsMissing(user')
                     THEN /\ Raise(Error("KoboException", "refresh settings not set"))
                          /\ UNCHANGED saves
                     ELSE /\ saves' = saves + 1
                          /\ pc' = "resend"
                          /\ UNCHANGED result
    /\ UNCHANGED <<InitializationSettings, op, loc, resp, sends, calls, fs>>

\* Faulty variant: the hook resends but hands back the first (401) response.
ReauthenticationHookKeepsFirst ==
    /\ pc = "resend"
    /\ sends' = sends + 1
    /\ \E r \in Responses(op, IF op = "GetMyBookList" THEN Len(loc.pagesSeen) ELSE 0) :
          /\ wire' = Append(wire,
                  Exchange([wire[1].req EXCEPT !.auth = GetHeaderWithAccessToken,
                                              !.hooked = FALSE], r))
          /\ resp' = wire[1].answer
          /\ pc' = "response"
    /\ UNCHANGED <<user, InitializationSettings, op, loc, refreshes, saves,
                   calls, fs, result>>

\* Faulty variant: the resent request keeps the hook, so a second 401 is repaired again.
ReauthenticationHookRepairsAgain ==
    /\ pc = "resend"
    /\ sends' = sends + 1
    /\ \E r \in Responses(op, IF op = "GetMyBookList" THEN Len(loc.pagesSeen) ELSE 0) :
          /\ wire' = Append(wire,
                  Exchange([wire[1].req EXCEPT !.auth = GetHeaderWithAccessToken], r))
          /\ IF r.status = Unauthorized
             THEN pc' = "hook" /\ resp' = NoResp
             ELSE pc' = "response" /\ resp' = r
    /\ UNCHANGED <<user, InitializationSettings, op, loc, refreshes, saves,
                   calls, fs, result>>

\* Faulty variant: the copy of the request is resent with the header it came with.
ReauthenticationHookStaleHeader ==
    /\ pc = "resend"
    /\ sends' = sends + 1
    /\ \E r \in Responses(op, IF op = "GetMyBookList" THEN Len(loc.pagesSeen) ELSE 0) :
          /\ wire' = Append(wire, Exchange([wire[1].req EXCEPT !.hooked = FALSE], r))
          /\ resp' = r
          /\ pc' = "response"
    /\ UNCHANGED <<user, InitializationSettings, op, loc, refreshes, saves,
                   calls, fs, result>>

(***************************************************************************)
(* ReauthenticationHook after the refresh (kobo.py 108-118): the copy of   *)
(* the request gets the new header, loses the hook, and is sent through    *)
(* the connection; its answer is what Session.get returns.                 *)
(***************************************************************************)
ReauthenticationHook ==
    /\ pc = "resend"
    /\ sends' = sends + 1
    /\ \E r \in Responses(op, IF op = "GetMyBookList" THEN Len(loc.pagesSeen) ELSE 0) :
          /\ wire' = Append(wire,
                  Exchange([wire[1].req EXCEPT !.auth = GetHeaderWithAccessToken,
                                              !.hooked = FALSE], r))
          /\ resp' = r
          /\ pc' = "response"
    /\ UNCHANGED <<user, InitializationSettings, op, loc, refreshes, saves,
                   calls, fs, result>>

(***************************************************************************)
(* LoadInitializationSettings (kobo.py 379-390).                           *)
(***************************************************************************)
LoadInitializationSettings ==
    /\ Enter("LoadInitializationSettings")
    /\ SessionGetHooked("LoadInitializationSettings",
                        HookedGet("v1/initialization", EmptyDict, <<>>), 0)
    /\ calls' = 1
    /\ loc' = <<>>
    /\ fs' = NoFiles
    /\ Running
    /\ UNCHANGED <<user, InitializationSettings>>

\* Faulty variant: a failed resolution empties the directory.
LoadInitializationSettingsReturnResets ==
    /\ pc = "response" /\ op = "LoadInitializationSettings"
    /\ IF RaisesForStatus(resp.status)
       THEN /\ Raise(Error("HTTPError", "initialization"))
            /\ InitializationSettings' = EmptyDict
       ELSE /\ InitializationSettings' = resp.body.Resources
            /\ Return(<<>>)
    /\ UNCHANGED <<user, op, loc, wire, resp, sends, refreshes, saves, calls, fs>>

\* kobo.py 388-390: the status check, then the Resources become the directory.
LoadInitializationSettingsReturn ==
    /\ pc = "response" /\ op = "LoadInitializationSettings"
    /\ IF RaisesForStatus(resp.status)
       THEN /\ Raise(Error("HTTPError", "initialization"))
            /\ UNCHANGED InitializationSettings
       ELSE /\ InitializationSettings' = resp.body.Resources
            /\ Return(<<>>)
    /\ UNCHANGED <<user, op, loc, wire, resp, sends, refreshes, saves, calls, fs>>

(***************************************************************************)
(* GetBookInfo (kobo.py 369-377).                                          *)
(***************************************************************************)
GetBookInfo ==
    /\ Enter("GetBookInfo")
    /\ \E productId \in ProductIds :
          IF "book" \notin DOMAIN InitializationSettings
          THEN RaiseAtEntry("GetBookInfo", Error("KeyError", "book"))
          ELSE /\ SessionGetHooked("GetBookInfo",
                      HookedGet(<<InitializationSettings["book"], productId>>,
                                EmptyDict, <<>>), 0)
               /\ calls' = 1
               /\ Running
    /\ loc' = <<>>
    /\ fs' = NoFiles
    /\ UNCHANGED <<user, InitializationSettings>>

GetBookInfoReturn ==
    /\ pc = "response" /\ op = "GetBookInfo"
    /\ IF RaisesForStatus(resp.status)
       THEN Raise(Error("HTTPError", "book"))
       ELSE Return(resp.body)
    /\ UNCHANGED <<user, InitializationSettings, op, loc, wire, resp, sends,
                   refreshes, saves, calls, fs>>

(***************************************************************************)
(* GetMyBookList and __GetMyBookListPage (kobo.py 326-339, 161-178).       *)
(***************************************************************************)
\* kobo.py 162-169: the page request; the sync token goes in a header when non-empty.
BookListPageRequest(syncToken) ==
    HookedGet(InitializationSettings["library_sync"],
              IF Len(syncToken) > 0
              THEN [h \in {"x-kobo-synctoken"} |-> syncToken]
              ELSE EmptyDict,
              <<>>)

\* Faulty variant: the sync token is taken whatever "x-kobo-sync" says.
NextSyncTokenAlways(headers) == headers.synctoken

\* kobo.py 173-176: the token of the next page, "" when the listing is over.
NextSyncToken(headers) ==
    IF headers.sync = "continue" THEN headers.synctoken ELSE ""

\* Faulty variant: the new page is put in front of the pages already read.
AddBookListPrepend(fullBookList, bookList) == bookList \o fullBookList

\* kobo.py 335: fullBookList += bookList.
AddBookList(fullBookList, bookList) == fullBookList \o bookList

\* Faulty variant: the listing starts without looking at the credential state.
GetMyBookListUnchecked ==
    /\ Enter("GetMyBookList")
    /\ IF "library_sync" \notin DOMAIN InitializationSettings
       THEN /\ RaiseAtEntry("GetMyBookList", Error("KeyError", "library_sync"))
            /\ loc' = <<>>
       ELSE /\ SessionGetHooked("GetMyBookList", BookListPageRequest(""), 0)
            /\ calls' = 1
            /\ loc' = [fullBookList |-> <<>>, syncToken |-> "", pagesSeen |-> <<>>]
            /\ Running
    /\ fs' = NoFiles
    /\ UNCHANGED <<user, InitializationSettings>>

GetMyBookList ==
    /\ Enter("GetMyBookList")
    /\ IF ~AreAuthenticationSettingsSet(user)
       THEN /\ RaiseAtEntry("GetMyBookList", Error("NotAuthenticatedException", "GetMyBookList"))
            /\ loc' = <<>>
       ELSE IF "library_sync" \notin DOMAIN InitializationSettings
       THEN /\ RaiseAtEntry("GetMyBookList", Error("KeyError", "library_sync"))
            /\ loc' = <<>>
       ELSE /\ SessionGetHooked("GetMyBookList", BookListPageRequest(""), 0)
            /\ calls' = 1
            /\ loc' = [fullBookList |-> <<>>, syncToken |-> "", pagesSeen |-> <<>>]
            /\ Running
    /\ fs' = NoFiles
    /\ UNCHANGED <<user, InitializationSettings>>

\* The rest of __GetMyBookListPage (170-178) and the loop body of GetMyBookList (335-339).
GetMyBookListPage ==
    /\ pc = "response" /\ op = "GetMyBookList"
    /\ IF RaisesForStatus(resp.status)
       THEN /\ Raise(Error("HTTPError", "library_sync"))
            /\ UNCHANGED <<loc, wire, sends, refreshes, calls, resp>>
       ELSE LET syncToken == NextSyncToken(resp.headers)
                fullBookList == AddBookList(loc.fullBookList, resp.body)
                seen == Append(loc.pagesSeen,
                               [batch |-> resp.body, headers |-> resp.headers,
                                more |-> resp.more])
            IN /\ loc' = [fullBookList |-> fullBookList, syncToken |-> syncToken,
                          pagesSeen |-> seen]
               /\ IF Len(syncToken) = 0
                  THEN /\ Return(fullBookList)
                       /\ UNCHANGED <<wire, sends, refreshes, calls, resp>>
                  ELSE /\ SessionGetHooked("GetMyBookList",
                                           BookListPageRequest(syncToken), Len(seen))
                       /\ calls' = calls + 1
                       /\ UNCHANGED result
    /\ UNCHANGED <<user, InitializationSettings, op, saves, fs>>

(***************************************************************************)
(* GetMyWishList (kobo.py 341-367).                                        *)
(***************************************************************************)
WishListPageRequest(currentPageIndex) ==
    HookedGet(InitializationSettings["user_wishlist"], EmptyDict,
              [PageIndex |-> currentPageIndex, PageSize |-> PageSize])

\* Faulty variant: the comparison is strict.
WishListDoneStrict(currentPageIndex, wishList) ==
    currentPageIndex > wishList.TotalPageCount

\* kobo.py 364: the loop ends once the next index reaches the reported page count.
WishListDone(currentPageIndex, wishList) ==
    currentPageIndex >= wishList.TotalPageCount

GetMyWishList ==
    /\ Enter("GetMyWishList")
    /\ IF "user_wishlist" \notin DOMAIN InitializationSettings
       THEN /\ RaiseAtEntry("GetMyWishList", Error("KeyError", "user_wishlist"))
            /\ loc' = <<>>
       ELSE /\ SessionGetHooked("GetMyWishList", WishListPageRequest(0), 0)
            /\ calls' = 1
            /\ loc' = [items |-> <<>>, currentPageIndex |-> 0, pagesSeen |-> <<>>,
                       totals |-> {}, requested |-> <<WishListPageRequest(0).params>>]
            /\ Running
    /\ fs' = NoFiles
    /\ UNCHANGED <<user, InitializationSettings>>

\* kobo.py 358-367: one turn of the loop after its request, and the next request.
GetMyWishListPage ==
    /\ pc = "response" /\ op = "GetMyWishList"
    /\ IF RaisesForStatus(resp.status)
       THEN /\ Raise(Error("HTTPError", "user_wishlist"))
            /\ UNCHANGED <<loc, wire, sends, refreshes, calls, resp>>
       ELSE LET wishList == resp.body
                items == loc.items \o wishList.Items
                currentPageIndex == loc.currentPageIndex + 1
                done == WishListDone(currentPageIndex, wishList)
            IN /\ loc' = [items |-> items, currentPageIndex |-> currentPageIndex,
                          pagesSeen |-> Append(loc.pagesSeen, wishList.Items),
                          totals |-> loc.totals \cup {wishList.TotalPageCount},
                          requested |->
                              IF done THEN loc.requested
                              ELSE Append(loc.requested,
                                          WishListPageRequest(currentPageIndex).params)]
               /\ IF done
                  THEN /\ Return(items)
                       /\ UNCHANGED <<wire, sends, refreshes, calls, resp>>
                  ELSE /\ SessionGetHooked("GetMyWishList",
                                           WishListPageRequest(currentPageIndex), 0)
                       /\ calls' = calls + 1
                       /\ UNCHANGED result
    /\ UNCHANGED <<user, InitializationSettings, op, saves, fs>>

(***************************************************************************)
(* Login and __GetExtraLoginParameters (kobo.py 392-427, 122-159).         *)
(* The scraped pages are modelled by which patterns they contain.          *)
(***************************************************************************)
\* The sign-in page: which of the two scraped patterns its HTML contains.
SignInPages ==
    {[status |-> s, workflowId |-> FALSE, token |-> FALSE] : s \in Statuses \ {200}}
    \cup {[status |-> 200, workflowId |-> w, token |-> t] : w \in BOOLEAN, t \in BOOLEAN}

\* The answer to the sign-in POST: whether its HTML contains the
\* kobo://UserAuthenticated URL, and which query parameters that URL has.
SignInAnswers ==
    {[status |-> s, redirect |-> FALSE, userId |-> FALSE, userKey |-> FALSE] :
        s \in Statuses \ {200}}
    \cup {[status |-> 200, redirect |-> FALSE, userId |-> FALSE, userKey |-> FALSE]}
    \cup {[status |-> 200, redirect |-> TRUE, userId |-> u, userKey |-> k] :
            u \in BOOLEAN, k \in BOOLEAN}

\* Faulty variant: a page without the verification token is not refused.
LoginTokenUnchecked ==
    /\ Enter("Login")
    /\ IF "sign_in_page" \notin DOMAIN InitializationSettings
       THEN /\ RaiseAtEntry("Login", Error("KeyError", "sign_in_page"))
            /\ loc' = <<>>
       ELSE /\ sends' = 1 /\ refreshes' = 0 /\ calls' = 0 /\ resp' = NoResp
            /\ \E page \in SignInPages :
                  /\ wire' = <<Exchange(
                          [method |-> "GET", url |-> InitializationSettings["sign_in_page"],
                           auth |-> <<>>, headers |-> EmptyDict,
                           params |-> [pwsdid |-> user.DeviceId], hooked |-> FALSE],
                          page)>>
                  /\ IF RaisesForStatus(page.status)
                     THEN /\ RaiseFrom("Login", Error("HTTPError", "sign_in_page")) /\ loc' = <<>>
                     ELSE IF ~page.workflowId
                     THEN /\ RaiseFrom("Login", Error("KoboException", "workflow ID")) /\ loc' = <<>>
                     ELSE /\ loc' = [workflowId |-> "wf1",
                                     requestVerificationToken |->
                                         IF page.token THEN "rvt1" ELSE ""]
                          /\ pc' = "login_post"
                          /\ Running
    /\ fs' = NoFiles
    /\ UNCHANGED <<user, InitializationSettings>>

Login ==
    /\ Enter("Login")
    /\ IF "sign_in_page" \notin DOMAIN InitializationSettings
       THEN /\ RaiseAtEntry("Login", Error("KeyError", "sign_in_page"))
            /\ loc' = <<>>
       ELSE /\ sends' = 1 /\ refreshes' = 0 /\ calls' = 0 /\ resp' = NoResp
            /\ \E page \in SignInPages :
                  /\ wire' = <<Exchange(
                          [method |-> "GET", url |-> InitializationSettings["sign_in_page"],
                           auth |-> <<>>, headers |-> EmptyDict,
                           params |-> [pwsdid |-> user.DeviceId], hooked |-> FALSE],
                          page)>>
                  /\ IF RaisesForStatus(page.status)
                     THEN /\ RaiseFrom("Login", Error("HTTPError", "sign_in_page")) /\ loc' = <<>>
                     ELSE IF ~page.workflowId
                     THEN /\ RaiseFrom("Login", Error("KoboException", "workflow ID")) /\ loc' = <<>>
                     ELSE IF ~page.token
                     THEN /\ RaiseFrom("Login", Error("KoboException", "request verification token"))
                          /\ loc' = <<>>
                     ELSE /\ loc' = [workflowId |-> "wf1",
                                     requestVerificationToken |-> "rvt1"]
                          /\ pc' = "login_post"
                          /\ Running
    /\ fs' = NoFiles
    /\ UNCHANGED <<user, InitializationSettings>>

\* Faulty variant: every registration starts from a new device id and no tokens.
PrepareDeviceAlways(u, deviceId) ==
    [u EXCEPT !.DeviceId = deviceId, !.AccessToken = "", !.RefreshToken = ""]

\* kobo.py 257-260: a device id is generated, and the tokens cleared, only when none exists.
PrepareDevice(u, deviceId) ==
    IF Len(u.DeviceId) = 0
    THEN [u EXCEPT !.DeviceId = deviceId, !.AccessToken = "", !.RefreshToken = ""]
    ELSE u

\* kobo.py 399-427: the sign-in POST, the scraped redirect, and the call of AuthenticateDevice.
LoginPost ==
    /\ pc = "login_post"
    /\ \E answer \in SignInAnswers, deviceId \in DeviceIds :
          /\ wire' = <<Exchange([method |-> "POST", url |-> "signin/kobo", auth |-> <<>>,
                                 headers |-> EmptyDict, params |-> loc, hooked |-> FALSE],
                                answer)>>
          /\ IF RaisesForStatus(answer.status)
             THEN /\ Raise(Error("HTTPError", "signin")) /\ UNCHANGED <<user, loc>>
             ELSE IF ~answer.redirect
             THEN /\ Raise(Error("KoboException", "authenticated user URL"))
                  /\ UNCHANGED <<user, loc>>
             ELSE IF ~answer.userId
             THEN /\ Raise(Error("KeyError", "userId")) /\ UNCHANGED <<user, loc>>
             ELSE IF ~answer.userKey
             THEN /\ user' = [user EXCEPT !.UserId = "uidA"]
                  /\ Raise(Error("KeyError", "userKey")) /\ UNCHANGED loc
             ELSE /\ user' = PrepareDevice([user EXCEPT !.UserId = "uidA"], deviceId)
                  /\ loc' = [userKey |-> "keyA", generated |-> Len(user.DeviceId) = 0]
                  /\ pc' = "device_post"
                  /\ UNCHANGED result
    /\ UNCHANGED <<InitializationSettings, op, resp, sends, refreshes, saves,
                   calls, fs>>

(***************************************************************************)
(* AuthenticateDevice (kobo.py 256-295).                                   *)
(***************************************************************************)
AuthenticateDevice ==
    /\ Enter("AuthenticateDevice")
    /\ \E userKey \in {"", "keyA"}, deviceId \in DeviceIds :
          /\ user' = PrepareDevice(user, deviceId)
          /\ loc' = [userKey |-> userKey, generated |-> Len(user.DeviceId) = 0]
    /\ pc' = "device_post"
    /\ wire' = <<>> /\ resp' = NoResp
    /\ sends' = 0 /\ refreshes' = 0 /\ calls' = 0
    /\ fs' = NoFiles
    /\ Running
    /\ UNCHANGED InitializationSettings

\* Faulty variant: the settings are saved as soon as the tokens are stored, before they are checked.
AuthenticateDevicePostSavesFirst ==
    /\ pc = "device_post"
    /\ \E json \in TokenResponses :
          /\ wire' = <<Exchange([method |-> "POST", url |-> "auth/device", auth |-> <<>>,
                                 headers |-> EmptyDict,
                                 params |-> [DeviceId |-> user.DeviceId,
                                             UserKey |-> loc.userKey],
                                 hooked |-> FALSE], json)>>
          /\ IF RaisesForStatus(json.status)
             THEN /\ Raise(Error("HTTPError", "device"))
                  /\ UNCHANGED <<user, saves>>
             ELSE IF json.TokenType # "Bearer"
             THEN /\ Raise(Error("KoboException", "device token type"))
                  /\ UNCHANGED <<user, saves>>
             ELSE LET stored == StoreTokens(user, json) IN
                  /\ saves' = saves + 1
                  /\ IF SettingsMissing(stored)
                     THEN /\ user' = stored
                          /\ Raise(Error("KoboException", "device settings not set"))
                     ELSE /\ user' = IF Len(loc.userKey) > 0
                                     THEN [stored EXCEPT !.UserKey = json.UserKey]
                                     ELSE stored
                          /\ Return(<<>>)
    /\ UNCHANGED <<InitializationSettings, op, loc, resp, sends, refreshes,
                   calls, fs>>

\* kobo.py 262-295: the POST (no authorization header, no hook) and its answer.
AuthenticateDevicePost ==
    /\ pc = "device_post"
    /\ \E json \in TokenResponses :
          /\ wire' = <<Exchange([method |-> "POST", url |-> "auth/device", auth |-> <<>>,
                                 headers |-> EmptyDict,
                                 params |-> [DeviceId |-> user.DeviceId,
                                             UserKey |-> loc.userKey],
                                 hooked |-> FALSE], json)>>
          /\ IF RaisesForStatus(json.status)
             THEN /\ Raise(Error("HTTPError", "device"))
                  /\ UNCHANGED <<user, saves>>
             ELSE IF json.TokenType # "Bearer"
             THEN /\ Raise(Error("KoboException", "device token type"))
                  /\ UNCHANGED <<user, saves>>
             ELSE LET stored == StoreTokens(user, json) IN
                  IF SettingsMissing(stored)
                  THEN /\ user' = stored
                       /\ Raise(Error("KoboException", "device settings not set"))
                       /\ UNCHANGED saves
                  ELSE /\ user' = IF Len(loc.userKey) > 0
                                  THEN [stored EXCEPT !.UserKey = json.UserKey]
                                  ELSE stored
                       /\ saves' = saves + 1
                       /\ Return(<<>>)
    /\ UNCHANGED <<InitializationSettings, op, loc, resp, sends, refreshes,
                   calls, fs>>

(***************************************************************************)
(* Download and its helpers (kobo.py 180-250, 299-321).                    *)
(* A path of the filesystem is "absent", or a file that is "old" (it was   *)
(* there before the call), "partial" or "complete".                        *)
(***************************************************************************)
InitialFiles == {[tmp |-> t, out |-> o] : t \in {"absent", "old"}, o \in {"absent", "old"}}

\* os.path.isfile.
IsFile(f) == f # "absent"

\* __GetContentKeys (kobo.py 194-202): Name -> Value, a later entry replacing an earlier.
RECURSIVE ContentKeysFrom(_, _, _)
ContentKeysFrom(jsonContentKeys, i, contentKeys) ==
    IF i > Len(jsonContentKeys)
    THEN contentKeys
    ELSE ContentKeysFrom(jsonContentKeys, i + 1,
            [n \in DOMAIN contentKeys \cup {jsonContentKeys[i].Name} |->
                IF n = jsonContentKeys[i].Name
                THEN jsonContentKeys[i].Value
                ELSE contentKeys[n]])

GetContentKeys(contentAccessBookResponse) ==
    IF "ContentKeys" \notin DOMAIN contentAccessBookResponse
    THEN EmptyDict
    ELSE ContentKeysFrom(contentAccessBookResponse.ContentKeys, 1, EmptyDict)

\* kobo.py 221-228: the test of the selection loop.
IsSupported(jsonContentUrl) ==
    /\ (jsonContentUrl.DRMType = "KDRM" \/ jsonContentUrl.DRMType = "SignedNoDrm")
    /\ (\/ jsonContentUrl.UrlFormat = "EPUB3"
        \/ jsonContentUrl.UrlFormat = "KEPUB"
        \/ jsonContentUrl.UrlFormat = "EPUB3FL")

\* Faulty variant: the loop keeps the last supported entry instead of returning at the first.
RECURSIVE ScanContentUrlsLast(_, _)
ScanContentUrlsLast(jsonContentUrls, i) ==
    IF i > Len(jsonContentUrls) THEN 0
    ELSE LET later == ScanContentUrlsLast(jsonContentUrls, i + 1)
         IN IF later # 0 THEN later
            ELSE IF IsSupported(jsonContentUrls[i]) THEN i ELSE 0

\* kobo.py 220-230: the loop returns at the first supported entry; 0 when it runs out.
RECURSIVE ScanContentUrls(_, _)
ScanContentUrls(jsonContentUrls, i) ==
    IF i > Len(jsonContentUrls) THEN 0
    ELSE IF IsSupported(jsonContentUrls[i]) THEN i
    ELSE ScanContentUrls(jsonContentUrls, i + 1)

\* Faulty variant: the message stops after the first entry.
AvailableFormatsFirstOnly(jsonContentUrls, i, message) ==
    Append(message, <<jsonContentUrls[i].DRMType, jsonContentUrls[i].UrlFormat>>)

\* kobo.py 236-241: one "DRMType: '%s', UrlFormat: '%s'" line per entry, appended in order.
RECURSIVE AvailableFormats(_, _, _)
AvailableFormats(jsonContentUrls, i, message) ==
    IF i > Len(jsonContentUrls)
    THEN message
    ELSE AvailableFormats(jsonContentUrls, i + 1,
            Append(message, <<jsonContentUrls[i].DRMType, jsonContentUrls[i].UrlFormat>>))

DownloadInfoError(at, productId, formats) ==
    [ok |-> FALSE, url |-> 0, hasDrm |-> FALSE,
     error |-> [type |-> "KoboException", at |-> at,
                info |-> [productId |-> productId, formats |-> formats]]]

\* __GetDownloadInfo (kobo.py 204-243).
GetDownloadInfo(productId, contentAccessBookResponse) ==
    IF "ContentUrls" \notin DOMAIN contentAccessBookResponse
    THEN DownloadInfoError("Download URL can't be found", productId, <<>>)
    ELSE LET jsonContentUrls == contentAccessBookResponse.ContentUrls
             found == ScanContentUrls(jsonContentUrls, 1)
         IN IF Len(jsonContentUrls) = 0
            THEN DownloadInfoError("Download URL list is empty: archived book", productId, <<>>)
            ELSE IF found # 0
            THEN [ok |-> TRUE, url |-> jsonContentUrls[found].DownloadUrl,
                  hasDrm |-> jsonContentUrls[found].DRMType = "KDRM",
                  error |-> NoError]
            ELSE DownloadInfoError("Download URL for supported formats can't be found",
                                   productId, AvailableFormats(jsonContentUrls, 1, <<>>))

\* The locals of Download; `files0` is the filesystem the call found.
DownloadLocals(productId, outputPath, files0) ==
    [productId |-> productId, outputPath |-> outputPath, files0 |-> files0,
     contentKeys |-> EmptyDict, downloadUrl |-> 0, hasDrm |-> FALSE,
     error |-> NoError, streamed |-> 0, removeDrm |-> <<>>]

\* kobo.py 300 with __GetContentAccessBook 181-188: the content-access request.
Download ==
    /\ Enter("Download")
    /\ \E productId \in ProductIds, outputPath \in OutputPaths, files0 \in InitialFiles :
          /\ fs' = files0
          /\ loc' = DownloadLocals(productId, outputPath, files0)
          /\ IF "content_access_book" \notin DOMAIN InitializationSettings
             THEN RaiseAtEntry("Download", Error("KeyError", "content_access_book"))
             ELSE /\ SessionGetHooked("Download",
                        HookedGet(<<InitializationSettings["content_access_book"], productId>>,
                                  EmptyDict, [DisplayProfile |-> "Android"]), 0)
                  /\ calls' = 1
                  /\ Running
    /\ UNCHANGED <<user, InitializationSettings>>

\* Faulty variant: a failure of the fetch or of the selection removes both files.
DownloadSelectCleansUp ==
    /\ pc = "response" /\ op = "Download"
    /\ IF RaisesForStatus(resp.status)
       THEN /\ Raise(Error("HTTPError", "content_access_book"))
            /\ fs' = NoFiles
            /\ UNCHANGED loc
       ELSE LET info == GetDownloadInfo(loc.productId, resp.body)
            IN IF ~info.ok
               THEN /\ Raise(info.error)
                    /\ fs' = NoFiles
                    /\ loc' = [loc EXCEPT !.contentKeys = GetContentKeys(resp.body)]
               ELSE /\ loc' = [loc EXCEPT !.contentKeys = GetContentKeys(resp.body),
                                          !.downloadUrl = info.url,
                                          !.hasDrm = info.hasDrm]
                    /\ pc' = "download_to_file"
                    /\ UNCHANGED <<result, fs>>
    /\ UNCHANGED <<user, InitializationSettings, op, wire, resp, sends, refreshes,
                   saves, calls>>

\* kobo.py 189-191 and 301-304: the descriptor, the keys, the selected encoding.
DownloadSelect ==
    /\ pc = "response" /\ op = "Download"
    /\ IF RaisesForStatus(resp.status)
       THEN /\ Raise(Error("HTTPError", "content_access_book"))
            /\ UNCHANGED loc
       ELSE LET info == GetDownloadInfo(loc.productId, resp.body)
            IN IF ~info.ok
               THEN /\ Raise(info.error)
                    /\ loc' = [loc EXCEPT !.contentKeys = GetContentKeys(resp.body)]
               ELSE /\ loc' = [loc EXCEPT !.contentKeys = GetContentKeys(resp.body),
                                          !.downloadUrl = info.url,
                                          !.hasDrm = info.hasDrm]
                    /\ pc' = "download_to_file"
                    /\ UNCHANGED result
    /\ UNCHANGED <<user, InitializationSettings, op, wire, resp, sends, refreshes,
                   saves, calls, fs>>

\* An exception inside the try block of Download (kobo.py 306-316).
Except(error) ==
    /\ loc' = [loc EXCEPT !.error = error]
    /\ pc' = "except"

\* __DownloadToFile (kobo.py 245-250) under the try: a plain Session.get, then the file.
DownloadToFile ==
    /\ pc = "download_to_file"
    /\ sends' = 1 /\ refreshes' = 0
    /\ \E status \in Statuses, outcome \in {"open fails", "stream fails", "complete"} :
          /\ resp' = [status |-> status, body |-> <<>>, headers |-> <<>>, more |-> FALSE]
          /\ wire' = <<Exchange([method |-> "GET", url |-> loc.downloadUrl, auth |-> <<>>,
                                 headers |-> EmptyDict, params |-> <<>>,
                                 hooked |-> FALSE], resp')>>
          /\ IF RaisesForStatus(status)
             THEN /\ Except(Error("HTTPError", "download")) /\ UNCHANGED fs
             ELSE IF outcome = "open fails"
             THEN /\ Except(Error("OSError", "open")) /\ UNCHANGED fs
             ELSE IF outcome = "stream fails"
             THEN /\ Except(Error("ConnectionError", "iter_content"))
                  /\ fs' = [fs EXCEPT !.tmp = "partial"]
             ELSE /\ fs' = [fs EXCEPT !.tmp = "complete"]
                  /\ loc' = [loc EXCEPT !.streamed = loc.streamed + 1]
                  /\ pc' = IF loc.hasDrm THEN "remove_drm" ELSE "rename"
    /\ UNCHANGED <<user, InitializationSettings, op, saves, calls, result>>

\* kobo.py 310-311: the protection remover, an external collaborator that may fail.
RemoveDrm ==
    /\ pc = "remove_drm"
    /\ LET invoked == Append(loc.removeDrm,
                [DeviceId |-> user.DeviceId, UserId |-> user.UserId,
                 inputPath |-> "temporary", outputPath |-> loc.outputPath,
                 contentKeys |-> loc.contentKeys, tmp |-> fs.tmp])
       IN \E outcome \in {"fails", "fails midway", "complete"} :
             IF outcome = "complete"
             THEN /\ fs' = [fs EXCEPT !.out = "complete"]
                  /\ loc' = [loc EXCEPT !.removeDrm = invoked]
                  /\ pc' = "remove_temporary"
             ELSE /\ fs' = IF outcome = "fails midway"
                           THEN [fs EXCEPT !.out = "partial"] ELSE fs
                  /\ loc' = [loc EXCEPT !.removeDrm = invoked,
                                        !.error = Error("Exception", "RemoveDrm")]
                  /\ pc' = "except"
    /\ UNCHANGED <<user, InitializationSettings, op, wire, resp, sends, refreshes,
                   saves, calls, result>>

\* Faulty variant: the temporary file is left behind after the protection removal.
RemoveTemporaryKeepsFile ==
    /\ pc = "remove_temporary"
    /\ Return(loc.outputPath)
    /\ UNCHANGED <<user, InitializationSettings, op, loc, wire, resp, sends, refreshes,
                   saves, calls, fs>>

\* kobo.py 312, 315: os.remove(temporaryOutputPath), then the return.
RemoveTemporary ==
    /\ pc = "remove_temporary"
    /\ \E removed \in BOOLEAN :
          IF removed
          THEN /\ fs' = [fs EXCEPT !.tmp = "absent"]
               /\ Return(loc.outputPath)
               /\ UNCHANGED loc
          ELSE /\ Except(Error("OSError", "remove"))
               /\ UNCHANGED <<fs, result>>
    /\ UNCHANGED <<user, InitializationSettings, op, wire, resp, sends, refreshes,
                   saves, calls>>

\* kobo.py 314-315: os.rename(temporaryOutputPath, outputPath), then the return.
Rename ==
    /\ pc = "rename"
    /\ \E renamed \in BOOLEAN :
          IF renamed
          THEN /\ fs' = [tmp |-> "absent", out |-> fs.tmp]
               /\ Return(loc.outputPath)
               /\ UNCHANGED loc
          ELSE /\ Except(Error("OSError", "rename"))
               /\ UNCHANGED <<fs, result>>
    /\ UNCHANGED <<user, InitializationSettings, op, wire, resp, sends, refreshes,
                   saves, calls>>

\* Faulty variant: the handler removes the temporary file only.
CleanupTemporaryOnly ==
    /\ pc = "except"
    /\ \E removedTmp \in BOOLEAN :
          IF IsFile(fs.tmp) /\ ~removedTmp
          THEN /\ Raise(Error("OSError", "remove temporary in handler"))
               /\ UNCHANGED fs
          ELSE /\ Raise(loc.error)
               /\ fs' = [fs EXCEPT !.tmp = "absent"]
    /\ UNCHANGED <<user, InitializationSettings, op, loc, wire, resp, sends,
                   refreshes, saves, calls>>

\* kobo.py 316-321: the handler removes both files when they are there; a removal
\* that fails raises its own error in place of the one being handled.
Cleanup ==
    /\ pc = "except"
    /\ \E removedTmp \in BOOLEAN, removedOut \in BOOLEAN :
          IF IsFile(fs.tmp) /\ ~removedTmp
          THEN /\ Raise(Error("OSError", "remove temporary in handler"))
               /\ UNCHANGED fs
          ELSE IF IsFile(fs.out) /\ ~removedOut
          THEN /\ Raise(Error("OSError", "remove output in handler"))
               /\ fs' = [fs EXCEPT !.tmp = "absent"]
          ELSE /\ Raise(loc.error)
               /\ fs' = NoFiles
    /\ UNCHANGED <<user, InitializationSettings, op, loc, wire, resp, sends,
                   refreshes, saves, calls>>

\* The caller has taken the outcome; the client waits for its next call.  Only
\* self.user and self.InitializationSettings live on between two calls.
ReturnToCaller ==
    /\ pc = "done"
    /\ pc' = "idle"
    /\ op' = "none"
    /\ loc' = <<>>
    /\ wire' = <<>>
    /\ resp' = NoResp
    /\ sends' = 0 /\ refreshes' = 0 /\ saves' = 0 /\ calls' = 0
    /\ fs' = NoFiles
    /\ result' = NoResult
    /\ UNCHANGED <<user, InitializationSettings>>

Init ==
    /\ user = [DeviceId |-> "", UserId |-> "", UserKey |-> "",
               AccessToken |-> "", RefreshToken |-> ""]
    /\ InitializationSettings = EmptyDict
    /\ pc = "idle"
    /\ op = "none"
    /\ loc = <<>>
    /\ wire = <<>>
    /\ resp = NoResp
    /\ sends = 0 /\ refreshes = 0 /\ saves = 0 /\ calls = 0
    /\ fs = NoFiles
    /\ result = NoResult

Next ==
    \/ LoadInitializationSettings
    \/ LoadInitializationSettingsReturn
    \/ GetBookInfo
    \/ GetBookInfoReturn
    \/ AuthenticateDevice
    \/ AuthenticateDevicePost
    \/ GetMyBookList
    \/ GetMyBookListPage
    \/ GetMyWishList
    \/ GetMyWishListPage
    \/ Login
    \/ LoginPost
    \/ RefreshAuthentication
    \/ ReauthenticationHook
    \/ Download
    \/ DownloadSelect
    \/ DownloadToFile
    \/ RemoveDrm
    \/ RemoveTemporary
    \/ Rename
    \/ Cleanup
    \/ ReturnToCaller

Spec == Init /\ [][Next]_vars

(***************************************************************************)
(* The encoding selection on every descriptor up to MaxUrls entries: a     *)
(* logged-in client whose content-access request was just answered.        *)
(***************************************************************************)
InitSelect ==
    /\ user = [DeviceId |-> "devA", UserId |-> "uidA", UserKey |-> "keyB",
               AccessToken |-> "tokA", RefreshToken |-> "refA"]
    /\ InitializationSettings = [n \in ResourceNames |-> <<"storeA", n>>]
    /\ pc = "response"
    /\ op = "Download"
    /\ loc \in {DownloadLocals(p, o, NoFiles) : p \in ProductIds, o \in OutputPaths}
    /\ resp \in {[status |-> 200, body |-> d, headers |-> <<>>, more |-> FALSE] :
                    d \in AllDescriptors}
    /\ wire = <<Exchange(HookedGet(<<InitializationSettings["content_access_book"],
                                     loc.productId>>,
                                   EmptyDict, [DisplayProfile |-> "Android"]), resp)>>
    /\ sends = 1 /\ refreshes = 0 /\ saves = 0 /\ calls = 1
    /\ fs = NoFiles
    /\ result = NoResult

NextSelect ==
    \/ DownloadSelect
    \/ DownloadToFile
    \/ RemoveDrm
    \/ RemoveTemporary
    \/ Rename
    \/ Cleanup

SpecSelect == InitSelect /\ [][NextSelect]_vars

(***************************************************************************)
(* Properties.                                                             *)
(***************************************************************************)
RECURSIVE Flatten(_)
Flatten(lists) ==
    IF Len(lists) = 0 THEN <<>> ELSE Head(lists) \o Flatten(Tail(lists))

Finished(o) == pc = "done" /\ op = o
Succeeded(o) == Finished(o) /\ result.status = "ok"
Failed(o) == Finished(o) /\ result.status = "error"

\* The current Session.get met a 401, refreshed and resent.
Repaired ==
    /\ Len(wire) = 3
    /\ wire[1].req.hooked /\ wire[1].answer.status = 401
    /\ wire[2].req.method = "POST" /\ wire[2].answer.status = 200
    /\ wire[3].req.method = "GET"

\* C1: when the first answer of an authorized call is 401 and Session.get still
\* returns, the refresh ran exactly once and succeeded, the request went out
\* twice, and the response handed to the operation is the answer to the resent
\* request; a lookup or a directory resolution whose resent request succeeded
\* gives its caller the content of that answer.
C1_RepairYieldsResentResponse ==
    /\ (pc = "response" /\ wire[1].answer.status = 401) =>
          /\ Repaired
          /\ refreshes = 1 /\ sends = 2
          /\ resp = wire[3].answer
    /\ (Finished("GetBookInfo") /\ Len(wire) = 3 /\ wire[3].answer.status = 200) =>
          /\ result.status = "ok"
          /\ result.value = wire[3].answer.body
    /\ (Finished("LoadInitializationSettings") /\ Len(wire) = 3
            /\ wire[3].answer.status = 200) =>
          /\ result.status = "ok"
          /\ InitializationSettings = wire[3].answer.body.Resources

C1_Witness ==
    /\ Succeeded("GetBookInfo")
    /\ Repaired
    /\ refreshes = 1
    /\ wire[3].answer.status = 200
    /\ result.value = [Title |-> "t1"]

\* C2: within one authorized call the request goes out at most twice and the
\* refresh at most once; the hook never runs on the answer to the resent
\* request, and a 401 there reaches the caller as an HTTPError.
C2_AtMostOneRepair ==
    /\ sends <= 2 /\ refreshes <= 1
    /\ Cardinality({i \in DOMAIN wire : wire[i].req.method = "GET"}) <= 2
    /\ Cardinality({i \in DOMAIN wire : wire[i].req.method = "POST"}) <= 1
    /\ pc \in {"hook", "resend"} => Len(wire) < 3
    /\ (pc = "done" /\ Len(wire) = 3 /\ wire[3].answer.status = 401) =>
          /\ result.status = "error"
          /\ result.error.type = "HTTPError"

C2_Witness ==
    /\ pc = "done"
    /\ Len(wire) = 3
    /\ wire[1].answer.status = 401 /\ wire[3].answer.status = 401
    /\ refreshes = 1 /\ sends = 2
    /\ result.error.type = "HTTPError"

\* C3 as stated: after any failed Download (the directory being resolved),
\* whatever files the call found, neither the temporary path nor outputPath
\* exists and the caller has the error that made the Download fail.
C3_FailureLeavesNoFile ==
    (Failed("Download") /\ DOMAIN InitializationSettings # {}) =>
        /\ fs.tmp = "absent" /\ fs.out = "absent"
        /\ loc.error # NoError => result.error = loc.error

\* C3 amended: a Download that fails inside the try block (streaming,
\* protection removal, deletion of the temporary file, rename) either leaves
\* neither path and raises the original error, or fails to remove a file in
\* the handler and raises that removal's error; one that fails before the try
\* block (content-access fetch, encoding selection) leaves both paths as it
\* found them.
C3_FailureCleanup ==
    Failed("Download") =>
        IF loc.error = NoError
        THEN fs = loc.files0
        ELSE \/ /\ result.error = loc.error
                /\ fs.tmp = "absent" /\ fs.out = "absent"
             \/ /\ result.error = Error("OSError", "remove temporary in handler")
                /\ IsFile(fs.tmp)
             \/ /\ result.error = Error("OSError", "remove output in handler")
                /\ fs.tmp = "absent" /\ IsFile(fs.out)

C3_Witness ==
    /\ Failed("Download")
    /\ loc.files0 = [tmp |-> "old", out |-> "old"]
    /\ loc.error = Error("Exception", "RemoveDrm")
    /\ result.error = loc.error
    /\ fs = NoFiles

\* The content-access response is still the last exchange: nothing was requested after it.
DescriptorIsLastExchange ==
    /\ op = "Download"
    /\ pc \in {"download_to_file", "done"}
    /\ Len(wire) > 0
    /\ wire[Len(wire)].req.hooked \/ Len(wire) = 3
    /\ resp.status = 200
    /\ "ContentUrls" \in DOMAIN resp.body

Qualifies(u) ==
    /\ u.DRMType \in {"KDRM", "SignedNoDrm"}
    /\ u.UrlFormat \in {"EPUB3", "KEPUB", "EPUB3FL"}

\* C4: the selected encoding is the entry of smallest index whose DRM type is
\* KDRM or SignedNoDrm and whose format is EPUB3, KEPUB or EPUB3FL: the URL is
\* that entry's and hasDrm tells whether its DRM type is KDRM; the selection
\* fails only when no entry qualifies.
C4_FirstMatchWins ==
    DescriptorIsLastExchange =>
        LET urls == resp.body.ContentUrls
            Q == {i \in DOMAIN urls : Qualifies(urls[i])}
        IN IF Q = {}
           THEN Failed("Download")
           ELSE /\ pc = "download_to_file"
                /\ \E i \in Q :
                      /\ \A j \in Q : i <= j
                      /\ loc.downloadUrl = urls[i].DownloadUrl
                      /\ loc.hasDrm = (urls[i].DRMType = "KDRM")

C4_Witness ==
    /\ DescriptorIsLastExchange
    /\ pc = "download_to_file"
    /\ resp.body.ContentUrls =
          ContentUrlsOf(<<<<"AdeptDrm", "PDF">>, <<"SignedNoDrm", "EPUB3">>,
                          <<"KDRM", "KEPUB">>>>)
    /\ loc.downloadUrl = 2
    /\ loc.hasDrm = FALSE

SelectionFailures ==
    {"Download URL list is empty: archived book",
     "Download URL for supported formats can't be found"}

\* C5: with an empty ContentUrls the Download fails with the KoboException that
\* carries the archived-book hint; with a non-empty list in which no entry
\* qualifies it fails with the KoboException whose message lists the
\* (DRMType, UrlFormat) pair of every entry in list order; in both cases
\* nothing was requested or written after the content-access response.
C5_SelectionErrors ==
    /\ (Failed("Download") /\ result.error.at \in SelectionFailures) =>
          /\ wire[1].req.hooked
          /\ \A i \in DOMAIN wire : wire[i].req.auth # <<>>
          /\ loc.streamed = 0
          /\ fs = loc.files0
    /\ DescriptorIsLastExchange =>
        LET urls == resp.body.ContentUrls
        IN /\ Len(urls) = 0 =>
                /\ Failed("Download")
                /\ result.error.type = "KoboException"
                /\ result.error.at = "Download URL list is empty: archived book"
           /\ (Len(urls) > 0 /\ \A i \in DOMAIN urls : ~Qualifies(urls[i])) =>
                /\ Failed("Download")
                /\ result.error.type = "KoboException"
                /\ result.error.at = "Download URL for supported formats can't be found"
                /\ result.error.info.formats =
                      [i \in 1..Len(urls) |-> <<urls[i].DRMType, urls[i].UrlFormat>>]

C5_Witness ==
    /\ DescriptorIsLastExchange
    /\ Failed("Download")
    /\ resp.body.ContentUrls =
          ContentUrlsOf(<<<<"AdeptDrm", "EPUB3">>, <<"KDRM", "PDF">>>>)
    /\ result.error.info.formats = <<<<"AdeptDrm", "EPUB3">>, <<"KDRM", "PDF">>>>
    /\ loc.files0 = NoFiles

Last(seq) == seq[Len(seq)]
BatchesOf(pages) == [i \in 1..Len(pages) |-> pages[i].batch]

\* The pages read so far are as C6 describes them: every page but the last of
\* the library carries "x-kobo-sync: continue", the last does not.
PagesAsClaimed(pages) ==
    \A i \in DOMAIN pages :
        IF pages[i].more
        THEN pages[i].headers.sync = "continue"
        ELSE pages[i].headers.sync # "continue"

\* The same, every page but the last carrying a non-empty sync token as well.
PagesWithTokens(pages) ==
    \A i \in DOMAIN pages :
        IF pages[i].more
        THEN pages[i].headers.sync = "continue" /\ pages[i].headers.synctoken # ""
        ELSE pages[i].headers.sync # "continue"

\* What C6 promises once GetMyBookList has returned: the library was read to
\* its last page, one page request per page, and the result is the pages'
\* batches in the order served.
ListedWholeLibrary ==
    /\ ~Last(loc.pagesSeen).more
    /\ \A i \in 1..(Len(loc.pagesSeen) - 1) : loc.pagesSeen[i].more
    /\ calls = Len(loc.pagesSeen)
    /\ result.value = Flatten(BatchesOf(loc.pagesSeen))

\* C6 as stated.
C6_Original ==
    (Succeeded("GetMyBookList") /\ PagesAsClaimed(loc.pagesSeen)) => ListedWholeLibrary

\* C6 amended: for every sequence of pages in which every page but the last
\* carries the continuation header and a non-empty sync token, GetMyBookList
\* returns the concatenation of all pages' batches in server order and issues
\* exactly one page request per page.
C6_ListsAllPages ==
    (Succeeded("GetMyBookList") /\ PagesWithTokens(loc.pagesSeen)) => ListedWholeLibrary

C6_Witness ==
    /\ Succeeded("GetMyBookList")
    /\ PagesWithTokens(loc.pagesSeen)
    /\ BatchesOf(loc.pagesSeen) = <<<<"b2">>, <<"b2", "b1">>>>
    /\ result.value = <<"b2", "b2", "b1">>
    /\ calls = 2

\* C7: when every wishlist response reports TotalPageCount = N, GetMyWishList
\* issues N page requests (one when N = 0), for the page indexes 0, 1, ... in
\* that order with page size 100, and returns the pages' Items in that order.
C7_WishListPages ==
    Succeeded("GetMyWishList") =>
        \A N \in loc.totals :
            loc.totals = {N} =>
                LET n == IF N = 0 THEN 1 ELSE N
                IN /\ calls = n
                   /\ loc.requested = [i \in 1..n |-> [PageIndex |-> i - 1, PageSize |-> 100]]
                   /\ Len(loc.pagesSeen) = n
                   /\ result.value = Flatten(loc.pagesSeen)

C7_Witness ==
    /\ Succeeded("GetMyWishList")
    /\ loc.totals = {2}
    /\ calls = 2
    /\ loc.pagesSeen = <<<<"b2", "b1">>, <<"b2">>>>
    /\ result.value = <<"b2", "b1", "b2">>

\* C8: a GetMyBookList called while the credential is not authenticated ends at
\* once with NotAuthenticatedException: nothing went on the wire (no page
\* request, no refresh) and the credential and the directory are as before.
C8_NotAuthenticatedIsLocal ==
    [][(pc = "idle" /\ op' = "GetMyBookList" /\ ~AreAuthenticationSettingsSet(user)) =>
          /\ pc' = "done"
          /\ result'.status = "error"
          /\ result'.error.type = "NotAuthenticatedException"
          /\ wire' = <<>> /\ sends' = 0 /\ calls' = 0 /\ refreshes' = 0
          /\ user' = user
          /\ InitializationSettings' = InitializationSettings]_vars

C8_Witness ==
    /\ Failed("GetMyBookList")
    /\ result.error.type = "NotAuthenticatedException"
    /\ ~AreAuthenticationSettingsSet(user)
    /\ user.AccessToken # ""
    /\ wire = <<>>

\* C9: while the first registration of a device is under way the credential is
\* not authenticated, and whenever AuthenticateDevice (called directly or by
\* Login) returns without error both tokens are non-empty.
C9_AuthenticatedAfterRegistration ==
    /\ (pc = "device_post" /\ loc.generated) => ~AreAuthenticationSettingsSet(user)
    /\ (Succeeded("AuthenticateDevice") \/ Succeeded("Login")) =>
          /\ user.AccessToken # "" /\ user.RefreshToken # ""
          /\ AreAuthenticationSettingsSet(user)

C9_Witness ==
    /\ Succeeded("AuthenticateDevice")
    /\ loc.generated
    /\ user.AccessToken = "tokB" /\ user.RefreshToken = "refA"

\* One step in which Globals.Settings.Save is invoked.
SaveStep == saves' > saves
RefreshSucceeds == pc = "hook" /\ pc' = "resend"
RegistrationSucceeds == pc = "device_post" /\ pc' = "done" /\ result'.status = "ok"
StepFails == pc' = "done" /\ result'.status = "error"

\* C10: every Save is made by a refresh or a device registration that
\* completes successfully, once, with the credential authenticated; each such
\* completion saves; a step that fails saves nothing, so a failed
\* AuthenticateDevice or Login has saved nothing.
C10_SaveOnSuccessOnly ==
    /\ [][/\ SaveStep =>
               /\ saves' = saves + 1
               /\ RefreshSucceeds \/ RegistrationSucceeds
               /\ AreAuthenticationSettingsSet(user')
          /\ (RefreshSucceeds \/ RegistrationSucceeds) => SaveStep
          /\ StepFails => saves' = saves]_vars
    /\ []((Failed("AuthenticateDevice") \/ Failed("Login")) => saves = 0)

C10_Witness ==
    /\ Succeeded("Login")
    /\ saves = 1
    /\ AreAuthenticationSettingsSet(user)

ResourceOps == {"LoadInitializationSettings", "GetMyBookList", "GetMyWishList",
                "GetBookInfo", "Download"}

\* The exchange is the streaming fetch of the chosen download URL: the one GET
\* of Download that carries no DisplayProfile parameter.
IsStreamingFetch(e) ==
    op = "Download" /\ e.req.method = "GET" /\ DOMAIN e.req.params = {}

CarriesBearer(e) == Len(e.req.auth) = 2 /\ e.req.auth[1] = "Bearer"

\* The first request of the current call met a 401 and the hook took it up.
TakenUpByHook ==
    (wire[1].answer.status = 401 /\ pc # "hook") => refreshes = 1

\* C11 as stated: every GET of a resource operation, the streaming fetch of
\* the download URL included, carries the bearer authorization header, and
\* its first attempt has the repair hook: a 401 on it starts a refresh.
C11_AllThroughExecutor ==
    (op \in ResourceOps /\ Len(wire) > 0) =>
        /\ \A i \in DOMAIN wire : wire[i].req.method = "GET" => CarriesBearer(wire[i])
        /\ wire[1].req.hooked
        /\ TakenUpByHook

\* C11 amended: every GET of a resource operation except the streaming fetch
\* carries the bearer authorization header and its first attempt has the
\* repair hook; the streaming fetch of the download URL is a plain GET: no
\* authorization header, no hook, and a 401 on it is not repaired but fails
\* the Download with an HTTPError.
C11_AllButStreamingThroughExecutor ==
    (op \in ResourceOps /\ Len(wire) > 0) =>
        IF IsStreamingFetch(wire[1])
        THEN /\ Len(wire) = 1
             /\ wire[1].req.auth = <<>>
             /\ ~wire[1].req.hooked
             /\ refreshes = 0
             /\ (pc = "done" /\ wire[1].answer.status = 401) =>
                    /\ result.status = "error"
                    /\ result.error.type \in {"HTTPError", "OSError"}
        ELSE /\ \A i \in DOMAIN wire :
                    wire[i].req.method = "GET" => CarriesBearer(wire[i])
             /\ wire[1].req.hooked
             /\ TakenUpByHook

C11_Witness ==
    /\ Failed("Download")
    /\ Len(wire) = 1
    /\ IsStreamingFetch(wire[1])
    /\ wire[1].answer.status = 401
    /\ result.error = Error("HTTPError", "download")
    /\ refreshes = 0

\* C12 as stated: once populated, the directory is never changed by any step,
\* a further LoadInitializationSettings included.
C12_PopulatedOnce ==
    [][DOMAIN InitializationSettings # {} =>
          InitializationSettings' = InitializationSettings]_vars

\* C12 amended: the directory is changed by nothing but a LoadInitializationSettings
\* that succeeds, which replaces it with the Resources of its response; every
\* other step (authentication, refresh, listing, lookup, download, a failing
\* LoadInitializationSettings) leaves it as it is.
C12_OnlyResolutionWrites ==
    [][InitializationSettings' # InitializationSettings =>
          /\ op = "LoadInitializationSettings"
          /\ pc = "response" /\ pc' = "done"
          /\ result'.status = "ok"
          /\ ~RaisesForStatus(resp.status)
          /\ InitializationSettings' = resp.body.Resources]_vars

C12_Witness ==
    /\ Failed("LoadInitializationSettings")
    /\ Len(wire) = 3
    /\ user.AccessToken = "tokB"
    /\ InitializationSettings = [n \in ResourceNames |-> <<"storeB", n>>]

\* C13: in a repair the refresh request carries the access token the failed
\* request carried (the pre-refresh token), the resent request carries the
\* access token the refresh returned, and the resent request differs from the
\* original in nothing but the authorization header (and the removed hook).
C13_RepairHeaders ==
    (Len(wire) >= 2 /\ wire[1].req.hooked) =>
        /\ wire[2].req.method = "POST"
        /\ wire[2].req.auth = wire[1].req.auth
        /\ Len(wire) = 3 =>
              /\ wire[3].req.auth = <<"Bearer", wire[2].answer.AccessToken>>
              /\ wire[3].req.auth = <<"Bearer", user.AccessToken>>
              /\ [wire[3].req EXCEPT !.auth = wire[1].req.auth, !.hooked = TRUE]
                    = wire[1].req

C13_Witness ==
    /\ op = "GetMyWishList"
    /\ pc = "response"
    /\ Len(wire) = 3
    /\ wire[1].req.auth = <<"Bearer", "tokA">>
    /\ wire[2].req.auth = <<"Bearer", "tokA">>
    /\ wire[2].answer.AccessToken = "tokB"
    /\ wire[3].req.auth = <<"Bearer", "tokB">>
    /\ wire[3].req.params = [PageIndex |-> 1, PageSize |-> 100]

\* The content keys of a descriptor as C14 means them: each name of the
\* ContentKeys list with the value of its last entry (none when the list is absent).
KeysAsListed(body, contentKeys) ==
    LET ks == IF "ContentKeys" \in DOMAIN body THEN body.ContentKeys ELSE <<>>
    IN /\ DOMAIN contentKeys = {ks[i].Name : i \in DOMAIN ks}
       /\ \A i \in DOMAIN ks :
             (\A j \in DOMAIN ks : j > i => ks[j].Name # ks[i].Name) =>
                 contentKeys[ks[i].Name] = ks[i].Value

\* C14: a Download that returns has streamed once and returns outputPath with
\* no file at the temporary path.  With hasDrm (KDRM) the remover was invoked
\* exactly once, on the streamed temporary file, with the credential's device
\* id and user id, outputPath and the content keys extracted from the
\* descriptor, and the temporary file was still there until it had returned;
\* without (SignedNoDrm) the remover was never invoked and the streamed file
\* was renamed to outputPath.
C14_SuccessfulDownload ==
    /\ (op = "Download" /\ pc = "download_to_file") =>
          /\ KeysAsListed(resp.body, loc.contentKeys)
          /\ loc.removeDrm = <<>>
    /\ (op = "Download" /\ pc \in {"remove_drm", "remove_temporary"}) =>
          /\ loc.hasDrm
          /\ fs.tmp = "complete"
          /\ Len(loc.removeDrm) = (IF pc = "remove_drm" THEN 0 ELSE 1)
    /\ (op = "Download" /\ pc = "rename") => (~loc.hasDrm /\ loc.removeDrm = <<>>)
    /\ Succeeded("Download") =>
          /\ result.value = loc.outputPath
          /\ loc.streamed = 1
          /\ fs = [tmp |-> "absent", out |-> "complete"]
          /\ IF loc.hasDrm
             THEN loc.removeDrm =
                     <<[DeviceId |-> user.DeviceId, UserId |-> user.UserId,
                        inputPath |-> "temporary", outputPath |-> loc.outputPath,
                        contentKeys |-> loc.contentKeys, tmp |-> "complete"]>>
             ELSE loc.removeDrm = <<>>

C14_Witness ==
    /\ Succeeded("Download")
    /\ loc.hasDrm
    /\ loc.files0 = [tmp |-> "old", out |-> "old"]
    /\ Len(loc.removeDrm) = 1
    /\ loc.removeDrm[1].contentKeys = [n \in {"k1"} |-> "v2"]
    /\ loc.removeDrm[1].DeviceId = "devB"
    /\ fs = [tmp |-> "absent", out |-> "complete"]

\* A step of GetMyBookList that has a page response in hand.
PageAnswered ==
    pc = "response" /\ op = "GetMyBookList" /\ ~RaisesForStatus(resp.status)
\* The step issues the request of the next page.
NextPageRequested == pc' \in {"response", "hook"} /\ calls' = calls + 1
\* The step ends the listing normally.
ListingEnds == pc' = "done" /\ result'.status = "ok"

\* The sync-token header of the request that opens the current Session.get.
SyncTokenSent(w) ==
    IF "x-kobo-synctoken" \in DOMAIN w[1].req.headers
    THEN w[1].req.headers["x-kobo-synctoken"]
    ELSE ""

\* C15 as stated: the loop repeats whenever the page's continuation header says
\* "continue" and ends otherwise.
C15_RepeatsOnContinue ==
    [][PageAnswered =>
          IF resp.headers.sync = "continue" THEN NextPageRequested ELSE ListingEnds]_vars

\* C15 amended: the loop repeats whenever the page's continuation header says
\* "continue" and the page carries a non-empty sync token, and ends otherwise;
\* the first request carries no sync-token header and every later request
\* carries exactly the sync token of the response just before it.
C15_RepeatsOnContinueWithToken ==
    [][/\ PageAnswered =>
             IF resp.headers.sync = "continue" /\ resp.headers.synctoken # ""
             THEN /\ NextPageRequested
                  /\ DOMAIN wire'[1].req.headers = {"x-kobo-synctoken"}
                  /\ SyncTokenSent(wire') = resp.headers.synctoken
             ELSE ListingEnds
       /\ (pc = "idle" /\ op' = "GetMyBookList" /\ pc' # "done") =>
             /\ calls' = 1
             /\ DOMAIN wire'[1].req.headers = {}]_vars

C15_Witness ==
    /\ op = "GetMyBookList"
    /\ pc = "response"
    /\ Len(loc.pagesSeen) = 1
    /\ loc.pagesSeen[1].headers = [sync |-> "continue", synctoken |-> "s2"]
    /\ SyncTokenSent(wire) = "s2"
    /\ calls = 2

\* The step ends Login with a protocol error, having touched nothing: the
\* sign-in exchange is the only one, nothing was saved, the credential is as before.
LoginRefused ==
    /\ pc' = "done"
    /\ result'.status = "error"
    /\ result'.error.type = "KoboException"
    /\ Len(wire') = 1 /\ "DeviceId" \notin DOMAIN wire'[1].req.params
    /\ saves' = 0
    /\ user' = user

\* C16: a sign-in page without the workflow id or without the verification
\* token, and a sign-in answer without the UserAuthenticated URL, each end
\* Login with a KoboException before device registration, with nothing saved
\* and the credential unchanged; Login stores the user id, and goes on to the
\* device registration with the extracted user key, only in the step that
\* found the URL after both page patterns were scraped.
C16_LoginScrapesFirst ==
    [][/\ (pc = "idle" /\ op' = "Login" /\ Len(wire') = 1
              /\ wire'[1].answer.status = 200
              /\ ~(wire'[1].answer.workflowId /\ wire'[1].answer.token)) => LoginRefused
       /\ (pc = "login_post" /\ wire'[1].answer.status = 200
              /\ ~wire'[1].answer.redirect) => LoginRefused
       /\ (op = "Login" /\ (pc' = "device_post" \/ user'.UserId # user.UserId)) =>
              /\ pc = "login_post"
              /\ loc.workflowId = "wf1" /\ loc.requestVerificationToken = "rvt1"
              /\ wire'[1].answer.status = 200 /\ wire'[1].answer.redirect
              /\ user'.UserId = "uidA"
       /\ (op = "Login" /\ pc' = "device_post") => loc'.userKey = "keyA"
       /\ (op = "Login" /\ pc = "device_post") =>
              wire'[1].req.params.UserKey = "keyA"]_vars

C16_Witness ==
    /\ Failed("Login")
    /\ result.error = Error("KoboException", "authenticated user URL")
    /\ wire[1].req.params = [workflowId |-> "wf1", requestVerificationToken |-> "rvt1"]
    /\ user.AccessToken = "tokA" /\ user.UserId = ""
    /\ saves = 0

\* The step brings the client to the registration request of AuthenticateDevice.
RegistrationPrepared == pc # "device_post" /\ pc' = "device_post"

\* C17: a non-empty device id is never changed by any step; the device id
\* changes only from empty, in the step that prepares a registration, which
\* then sets a generated id and clears both tokens; a registration prepared
\* with a device id in place leaves the tokens as they are.
C17_DeviceIdStable ==
    [][/\ user.DeviceId # "" => user'.DeviceId = user.DeviceId
       /\ user'.DeviceId # user.DeviceId => RegistrationPrepared
       /\ RegistrationPrepared =>
             IF user.DeviceId = ""
             THEN /\ user'.DeviceId \in DeviceIds
                  /\ user'.AccessToken = "" /\ user'.RefreshToken = ""
             ELSE /\ user'.AccessToken = user.AccessToken
                  /\ user'.RefreshToken = user.RefreshToken]_vars

C17_Witness ==
    /\ op = "Login"
    /\ pc = "device_post"
    /\ ~loc.generated
    /\ user.DeviceId = "devB"
    /\ user.AccessToken = "tokB" /\ user.RefreshToken = "refB"

\* The step is a refresh that fails: the hook raises instead of resending.
RefreshFails == pc = "hook" /\ pc' = "done"
\* What every failed refresh has in common: the refresh request was the last
\* one sent, the caller gets the refresh's error, and nothing is saved.
RefreshErrorReachesCaller ==
    /\ Len(wire') = 2 /\ sends' = 1
    /\ result'.status = "error"
    /\ result'.error \in {Error("HTTPError", "refresh"),
                          Error("KoboException", "refresh token type"),
                          Error("KoboException", "refresh settings not set")}
    /\ saves' = saves
TokensKept ==
    /\ user'.AccessToken = user.AccessToken
    /\ user'.RefreshToken = user.RefreshToken

\* C18 as stated: a failed refresh, whatever made it fail, is not followed by
\* a resend, gives the caller its error, saves nothing and leaves both tokens
\* as they were.
C18_FailedRefreshKeepsTokens ==
    [][RefreshFails => (RefreshErrorReachesCaller /\ TokensKept)]_vars

\* C18 amended: a failed refresh is not followed by a resend, gives the caller
\* its error and saves nothing; after a failure status or a token type other
\* than "Bearer" both tokens are as they were, while after a Bearer response
\* with an empty token the credential holds the two tokens of that response.
C18_FailedRefresh ==
    [][RefreshFails =>
          /\ RefreshErrorReachesCaller
          /\ LET json == wire'[2].answer
             IN IF json.status = 200 /\ json.TokenType = "Bearer"
                THEN /\ json.AccessToken = "" \/ json.RefreshToken = ""
                     /\ user'.AccessToken = json.AccessToken
                     /\ user'.RefreshToken = json.RefreshToken
                ELSE TokensKept]_vars

C18_Witness ==
    /\ Failed("GetBookInfo")
    /\ Len(wire) = 2
    /\ wire[2].req.auth = <<"Bearer", "tokA">>
    /\ wire[2].req.params.RefreshToken = "refA"
    /\ wire[2].answer.status = 200 /\ wire[2].answer.TokenType = "Bearer"
    /\ wire[2].answer.AccessToken = "tokB" /\ wire[2].answer.RefreshToken = ""
    /\ user.AccessToken = "tokB" /\ user.RefreshToken = ""
    /\ result.error = Error("KoboException", "refresh settings not set")
    /\ saves = 0

Listings == {"GetMyBookList", "GetMyWishList"}
\* The step issues the first attempt of a page request of a listing.
PageRequestIssued == op' \in Listings /\ calls' > 0 /\ calls' # calls

\* C19: the first attempt of every page request of a listing carries the
\* access token the credential holds when the request is issued: after a
\* repair during one page the next page's first attempt carries the token
\* that refresh returned, and a refresh is started only by a 401 on a request
\* that carried the credential's current token, never a stale one.
C19_PagesCarryCurrentToken ==
    [][/\ PageRequestIssued =>
             /\ Len(wire') = 1 /\ wire'[1].req.hooked
             /\ user' = user
             /\ wire'[1].req.auth = <<"Bearer", user.AccessToken>>
             /\ Len(wire) = 3 =>
                   wire'[1].req.auth = <<"Bearer", wire[2].answer.AccessToken>>
       /\ (op' \in Listings /\ pc' = "hook") =>
             /\ wire'[1].answer.status = 401
             /\ wire'[1].req.auth = <<"Bearer", user'.AccessToken>>]_vars

C19_Witness ==
    /\ op = "GetMyWishList"
    /\ pc = "response"
    /\ calls = 2 /\ Len(wire) = 1
    /\ saves = 1
    /\ wire[1].req.auth = <<"Bearer", "tokB">>
    /\ wire[1].req.params.PageIndex = 1
    /\ user.AccessToken = "tokB"

\* Download is at the content-access fetch or the encoding selection: the try block is not entered.
BeforeStreaming == op = "Download" /\ pc \in {"hook", "resend", "response"}
\* The failure came from the content-access fetch or from the encoding selection.
FailedBeforeStreaming ==
    /\ Failed("Download")
    /\ loc.error = NoError
    /\ loc.streamed = 0

\* C20: a Download that fails before streaming starts (content-access fetch
\* error, or an error from encoding selection) performs no filesystem
\* operation: no step of the fetch or of the selection changes a file, the
\* download URL is never requested, the protection remover is never invoked,
\* and both paths are exactly as the call found them.
C20_EarlyFailureTouchesNoFile ==
    [][/\ BeforeStreaming => fs' = fs
       /\ FailedBeforeStreaming' =>
             /\ fs' = loc'.files0
             /\ loc'.removeDrm = <<>>
             /\ \A i \in 1..Len(wire') : DOMAIN wire'[i].req.params # {}]_vars

C20_Witness ==
    /\ FailedBeforeStreaming
    /\ loc.files0 = [tmp |-> "old", out |-> "old"]
    /\ result.error.type = "KoboException"
    /\ result.error.at = "Download URL list is empty: archived book"
    /\ fs = loc.files0
====
